---- MODULE Spec2Model ----
(***************************************************************************)
(* Model of src/appetize.ts: the upload of one build to the Appetize API.  *)
(* JavaScript strings are sequences of one-character strings, so that      *)
(* concatenation, emptiness and containment are computed, not assumed.     *)
(* A JavaScript number is a record [nan, val]: NaN is [nan |-> TRUE].      *)
(***************************************************************************)
EXTENDS Integers, Sequences, FiniteSets, TLC

VARIABLES env, inputs, pc, data, headers, stream, log, posts, response, result, error, calls

vars == <<env, inputs, pc, data, headers, stream, log, posts, response, result, error, calls>>

(***************************************************************************)
(* String literals of the source, as character sequences.                  *)
(***************************************************************************)
S_empty == <<>>
S_ios == <<"i", "o", "s">>
S_android == <<"a", "n", "d", "r", "o", "i", "d">>
S_web == <<"w", "e", "b">>
S_apk == <<"a", "p", "k">>
S_zip == <<"z", "i", "p">>
S_targz == <<"t", "a", "r", ".", "g", "z">>
S_exe == <<"e", "x", "e">>
S_scrubbed == <<"s", "c", "r", "u", "b", "b", "e", "d">>
S_true == <<"t", "r", "u", "e">>
S_false == <<"f", "a", "l", "s", "e">>
S_NaN == <<"N", "a", "N">>
S_null == <<"n", "u", "l", "l">>
S_apps == <<"a", "p", "p", "s">>
S_slash == <<"/">>
S_uploading == <<"U", "p", "l", "o", "a", "d", "i", "n", "g", " ", "b", "u", "i", "l", "d", " ", "t", "o", " ">>
S_attached == <<"A", "t", "t", "a", "c", "h", "e", "d", " ", "s", "c", "r", "u", "b", "b", "e", "d", " ", "b", "u", "i", "l", "d", " ", "i", "n", "f", "o", ":">>

apiVersion == <<"v", "1">>

(***************************************************************************)
(* Error messages thrown by the source, and the opaque transport failure.  *)
(***************************************************************************)
Ok == "Ok"
NoError == "NoError"
InvalidPlatform == "Platform must be either ios or android"
MissingSource == "Either appFile or appUrl must be specified"
InvalidFileType == "FileType must be either apk, zip, or tar.gz"
InvalidTimeout == "Timeout must be either 30, 60, 120, 180, 300, 600, 1800, 3600, or 7200"
TransportFailures == {"Network Error", "Request failed with status code 500"}

(***************************************************************************)
(* JavaScript conversions used by getInputs, fileData and JSON.stringify.  *)
(***************************************************************************)
DigitChars == <<"0", "1", "2", "3", "4", "5", "6", "7", "8", "9">>

IsDigit(c) == \E i \in 1..10 : DigitChars[i] = c

DigitVal(c) == (CHOOSE i \in 1..10 : DigitChars[i] = c) - 1

RECURSIVE DecimalValue(_)
DecimalValue(s) ==
  IF s = <<>> THEN 0
  ELSE 10 * DecimalValue(SubSeq(s, 1, Len(s) - 1)) + DigitVal(s[Len(s)])

Num(n) == [nan |-> FALSE, val |-> n]

NaN == [nan |-> TRUE, val |-> 0]

\* Number(text): the empty string is 0, a run of decimal digits is its value,
\* any other text of the model's alphabet is NaN.
Number(s) ==
  IF s = <<>> THEN Num(0)
  ELSE IF \A i \in 1..Len(s) : IsDigit(s[i]) THEN Num(DecimalValue(s))
  ELSE NaN

\* Boolean(text): true exactly for a non-empty string.
Boolean(s) == s # <<>>

\* Truthiness of a string and of a number (0 and NaN are falsy).
TruthyString(s) == s # <<>>

TruthyNumber(n) == ~n.nan /\ n.val # 0

RECURSIVE DecimalDigits(_)
DecimalDigits(n) ==
  IF n < 10 THEN <<DigitChars[n + 1]>>
  ELSE DecimalDigits(n \div 10) \o <<DigitChars[(n % 10) + 1]>>

\* String(number) and String(boolean).
StringOfNumber(n) == IF n.nan THEN S_NaN ELSE DecimalDigits(n.val)

StringOfBoolean(b) == IF b THEN S_true ELSE S_false

(***************************************************************************)
(* Bounded input space: the values core.getInput may return.               *)
(***************************************************************************)
MaxExtras == 1

ApiHost == <<"h">>
ApiTokens == {<<"t", "k">>, <<"q", "z">>}
PublicKeys == {<<>>, <<"k">>}
Platforms == {S_ios, S_android, S_web}
AppFiles == {<<>>, <<"f">>}
AppUrls == {<<>>, <<"u">>}
FileTypes == {<<>>, S_apk, S_targz, S_exe}
Notes == {<<>>, <<"t", "k">>}
Timeouts == {<<>>, <<"0">>, <<"6", "0">>, <<"4", "5">>, <<"a", "b", "c">>}
Disableds == {<<>>, S_false}
ExtraFields == {"disableHome", "useLastFrame", "buttonText", "postSessionButtonText", "launchUrl"}
ExtraValue == <<"x">>

Responses == {[publicKey |-> <<"x", "y", "z">>]}

Envs ==
  { [apiHost |-> ApiHost, apiToken |-> tok, publicKey |-> key, platform |-> plat,
     appFile |-> file, appUrl |-> u, fileType |-> ft, note |-> nt,
     timeout |-> tm, disabled |-> dis,
     disableHome |-> IF "disableHome" \in ex THEN ExtraValue ELSE <<>>,
     useLastFrame |-> IF "useLastFrame" \in ex THEN ExtraValue ELSE <<>>,
     buttonText |-> IF "buttonText" \in ex THEN ExtraValue ELSE <<>>,
     postSessionButtonText |-> IF "postSessionButtonText" \in ex THEN ExtraValue ELSE <<>>,
     launchUrl |-> IF "launchUrl" \in ex THEN ExtraValue ELSE <<>>] :
    tok \in ApiTokens, key \in PublicKeys, plat \in Platforms, file \in AppFiles,
    u \in AppUrls, ft \in FileTypes, nt \in Notes, tm \in Timeouts, dis \in Disableds,
    ex \in {e \in SUBSET ExtraFields : Cardinality(e) <= MaxExtras} }

(***************************************************************************)
(* getInputs: the configuration record built from the environment.         *)
(***************************************************************************)
getInputs(e) ==
  [apiHost |-> e.apiHost,
   apiToken |-> e.apiToken,
   publicKey |-> e.publicKey,
   platform |-> e.platform,
   appFile |-> e.appFile,
   appUrl |-> e.appUrl,
   fileType |-> e.fileType,
   note |-> e.note,
   timeout |-> Number(e.timeout),
   disabled |-> Boolean(e.disabled),
   disableHome |-> Boolean(e.disableHome),
   useLastFrame |-> Boolean(e.useLastFrame),
   buttonText |-> e.buttonText,
   postSessionButtonText |-> e.postSessionButtonText,
   launchUrl |-> e.launchUrl]

(***************************************************************************)
(* validateInputData: the first violated rule, or Ok.                      *)
(***************************************************************************)
ValidTimeouts == {30, 60, 120, 180, 300, 600, 1800, 3600, 7200}

\* Variant without the source rule (lines 88-91 dropped).
validateInputData_noSource(input) ==
  IF input.platform # S_ios /\ input.platform # S_android THEN InvalidPlatform
  ELSE IF /\ TruthyString(input.fileType)
          /\ input.fileType # S_apk
          /\ input.fileType # S_zip
          /\ input.fileType # S_targz THEN InvalidFileType
  ELSE IF /\ TruthyNumber(input.timeout)
          /\ input.timeout.val \notin ValidTimeouts THEN InvalidTimeout
  ELSE Ok

validateInputData(input) ==
  IF input.platform # S_ios /\ input.platform # S_android THEN InvalidPlatform
  ELSE IF ~TruthyString(input.appFile) /\ ~TruthyString(input.appUrl) THEN MissingSource
  ELSE IF /\ TruthyString(input.fileType)
          /\ input.fileType # S_apk
          /\ input.fileType # S_zip
          /\ input.fileType # S_targz THEN InvalidFileType
  ELSE IF /\ TruthyNumber(input.timeout)
          /\ input.timeout.val \notin ValidTimeouts THEN InvalidTimeout
  ELSE Ok

(***************************************************************************)
(* url: the target address, read from the module-level configuration.      *)
(***************************************************************************)
\* Variant that always returns the collection address.
url_createOnly(input) ==
  input.apiHost \o S_slash \o apiVersion \o S_slash \o S_apps \o S_slash

url(input) ==
  LET baseUrl == input.apiHost \o S_slash \o apiVersion \o S_slash \o S_apps \o S_slash
  IN IF TruthyString(input.publicKey) THEN baseUrl \o input.publicKey ELSE baseUrl

(***************************************************************************)
(* OptionalFormData.appendOptional: append the field unless its value is   *)
(* empty.  A form is the sequence of its appended fields.                  *)
(***************************************************************************)
Field(name, value) == [name |-> name, value |-> value]

append(form, name, value) == Append(form, Field(name, value))

appendOptional(form, name, value) ==
  IF TruthyString(value) THEN append(form, name, value) ELSE form

(***************************************************************************)
(* fileData: the multipart form.  The "file" field carries the read stream *)
(* created on appFile, represented by its path.                            *)
(***************************************************************************)
fileData(input) ==
  LET f0 == append(<<>>, "file", input.appFile)
      f1 == append(f0, "platform", input.platform)
      f2 == appendOptional(f1, "fileType", input.fileType)
      f3 == appendOptional(f2, "note", input.note)
      f4 == appendOptional(f3, "timeout", StringOfNumber(input.timeout))
      f5 == appendOptional(f4, "disabled", StringOfBoolean(input.disabled))
      f6 == appendOptional(f5, "disableHome", StringOfBoolean(input.disableHome))
      f7 == appendOptional(f6, "useLastFrame", StringOfBoolean(input.useLastFrame))
      f8 == appendOptional(f7, "buttonText", input.buttonText)
      f9 == appendOptional(f8, "postSessionButtonText", input.postSessionButtonText)
  IN appendOptional(f9, "launchUrl", input.launchUrl)

(***************************************************************************)
(* urlData: the structured object referencing a remote file.               *)
(***************************************************************************)
urlData(input) ==
  [url |-> input.appUrl,
   platform |-> input.platform,
   fileType |-> input.fileType,
   note |-> input.note,
   timeout |-> input.timeout,
   disabled |-> input.disabled,
   disableHome |-> input.disableHome,
   useLastFrame |-> input.useLastFrame,
   buttonText |-> input.buttonText,
   postSessionButtonText |-> input.postSessionButtonText,
   launchUrl |-> input.launchUrl]

(***************************************************************************)
(* dataAndHeaders: the payload and its headers, or the thrown error.       *)
(***************************************************************************)
NoData == [kind |-> "none"]
FormHeaders == "multipart/form-data"
NoHeaders == "undefined"

\* Variant that tests appUrl before appFile.
dataAndHeaders_urlFirst(input) ==
  IF TruthyString(input.appUrl)
  THEN [threw |-> NoError, data |-> [kind |-> "object", object |-> urlData(input)],
        headers |-> NoHeaders]
  ELSE IF TruthyString(input.appFile)
  THEN [threw |-> NoError, data |-> [kind |-> "form", form |-> fileData(input)],
        headers |-> FormHeaders]
  ELSE [threw |-> MissingSource, data |-> NoData, headers |-> NoHeaders]

dataAndHeaders(input) ==
  IF TruthyString(input.appFile)
  THEN [threw |-> NoError, data |-> [kind |-> "form", form |-> fileData(input)],
        headers |-> FormHeaders]
  ELSE IF TruthyString(input.appUrl)
  THEN [threw |-> NoError, data |-> [kind |-> "object", object |-> urlData(input)],
        headers |-> NoHeaders]
  ELSE [threw |-> MissingSource, data |-> NoData, headers |-> NoHeaders]

(***************************************************************************)
(* JSON.stringify of the configuration copy, member by member in the       *)
(* order getInputs creates them.  NaN is serialised as null.  The model's  *)
(* alphabet has no character that JSON escapes.                            *)
(***************************************************************************)
Key == [
  apiHost |-> <<"a", "p", "i", "H", "o", "s", "t">>,
  apiToken |-> <<"a", "p", "i", "T", "o", "k", "e", "n">>,
  publicKey |-> <<"p", "u", "b", "l", "i", "c", "K", "e", "y">>,
  platform |-> <<"p", "l", "a", "t", "f", "o", "r", "m">>,
  appFile |-> <<"a", "p", "p", "F", "i", "l", "e">>,
  appUrl |-> <<"a", "p", "p", "U", "r", "l">>,
  fileType |-> <<"f", "i", "l", "e", "T", "y", "p", "e">>,
  note |-> <<"n", "o", "t", "e">>,
  timeout |-> <<"t", "i", "m", "e", "o", "u", "t">>,
  disabled |-> <<"d", "i", "s", "a", "b", "l", "e", "d">>,
  disableHome |-> <<"d", "i", "s", "a", "b", "l", "e", "H", "o", "m", "e">>,
  useLastFrame |-> <<"u", "s", "e", "L", "a", "s", "t", "F", "r", "a", "m", "e">>,
  buttonText |-> <<"b", "u", "t", "t", "o", "n", "T", "e", "x", "t">>,
  postSessionButtonText |-> <<"p", "o", "s", "t", "S", "e", "s", "s", "i", "o", "n", "B", "u", "t", "t", "o", "n", "T", "e", "x", "t">>,
  launchUrl |-> <<"l", "a", "u", "n", "c", "h", "U", "r", "l">>]

Quote(s) == <<"\"">> \o s \o <<"\"">>

JsonString(s) == Quote(s)

JsonNumber(n) == IF n.nan THEN S_null ELSE DecimalDigits(n.val)

JsonBoolean(b) == IF b THEN S_true ELSE S_false

Member(k, v) == Quote(k) \o <<":">> \o v

JSONstringify(o) ==
  <<"{">>
  \o Member(Key.apiHost, JsonString(o.apiHost)) \o <<",">>
  \o Member(Key.apiToken, JsonString(o.apiToken)) \o <<",">>
  \o Member(Key.publicKey, JsonString(o.publicKey)) \o <<",">>
  \o Member(Key.platform, JsonString(o.platform)) \o <<",">>
  \o Member(Key.appFile, JsonString(o.appFile)) \o <<",">>
  \o Member(Key.appUrl, JsonString(o.appUrl)) \o <<",">>
  \o Member(Key.fileType, JsonString(o.fileType)) \o <<",">>
  \o Member(Key.note, JsonString(o.note)) \o <<",">>
  \o Member(Key.timeout, JsonNumber(o.timeout)) \o <<",">>
  \o Member(Key.disabled, JsonBoolean(o.disabled)) \o <<",">>
  \o Member(Key.disableHome, JsonBoolean(o.disableHome)) \o <<",">>
  \o Member(Key.useLastFrame, JsonBoolean(o.useLastFrame)) \o <<",">>
  \o Member(Key.buttonText, JsonString(o.buttonText)) \o <<",">>
  \o Member(Key.postSessionButtonText, JsonString(o.postSessionButtonText)) \o <<",">>
  \o Member(Key.launchUrl, JsonString(o.launchUrl))
  \o <<"}">>

(***************************************************************************)
(* The scrubbed copy: a spread copy of the configuration whose apiToken is *)
(* overwritten.  Returns the copy and the configuration as left behind.    *)
(***************************************************************************)
\* Variant where scrubbedInputs aliases the configuration instead of copying it.
scrub_alias(input) ==
  [inputs |-> [input EXCEPT !.apiToken = S_scrubbed],
   scrubbedInputs |-> [input EXCEPT !.apiToken = S_scrubbed]]

scrub(input) ==
  [inputs |-> input,
   scrubbedInputs |-> [input EXCEPT !.apiToken = S_scrubbed]]

\* The three core.info lines emitted before the request is sent.
diagnostics(input) ==
  << S_uploading \o url(input),
     S_attached,
     JSONstringify(scrub(input).scrubbedInputs) >>

(***************************************************************************)
(* State machine of one invocation of uploadBuild.                         *)
(***************************************************************************)
NoResult == [publicKey |-> <<>>, none |-> TRUE]
NoResponse == [status |-> "none"]

Init ==
  /\ env \in Envs
  /\ inputs = getInputs(env)
  /\ pc = "validate"
  /\ data = NoData
  /\ headers = NoHeaders
  /\ stream = "none"
  /\ log = <<>>
  /\ posts = <<>>
  /\ response = NoResponse
  /\ result = NoResult
  /\ error = NoError
  /\ calls = <<>>

\* Line 41: validateInputData(inputs) returns or throws.
Validate ==
  /\ pc = "validate"
  /\ LET r == validateInputData(inputs)
     IN /\ pc' = IF r = Ok THEN "build" ELSE "failed"
        /\ error' = IF r = Ok THEN error ELSE r
  /\ calls' = Append(calls, "validateInputData")
  /\ UNCHANGED <<env, inputs, data, headers, stream, log, posts, response, result>>

\* Line 42: dataAndHeaders(); fileData opens the read stream on appFile.
Build ==
  /\ pc = "build"
  /\ LET dh == dataAndHeaders(inputs)
     IN /\ pc' = IF dh.threw = NoError THEN "log" ELSE "failed"
        /\ error' = IF dh.threw = NoError THEN error ELSE dh.threw
        /\ data' = dh.data
        /\ headers' = dh.headers
        /\ stream' = IF dh.data.kind = "form" THEN "open" ELSE stream
  /\ calls' = Append(calls, "dataAndHeaders")
  /\ UNCHANGED <<env, inputs, log, posts, response, result>>

\* Lines 43-47: the diagnostic lines and the scrubbed copy.
Diagnose ==
  /\ pc = "log"
  /\ log' = log \o diagnostics(inputs)
  /\ inputs' = scrub(inputs).inputs
  /\ pc' = "post"
  /\ UNCHANGED <<env, data, headers, stream, posts, response, result, error, calls>>

\* Lines 48-56: the single axios.post with basic auth.
Post ==
  /\ pc = "post"
  /\ posts' = Append(posts, [method |-> "POST", url |-> url(inputs), data |-> data,
                             auth |-> [username |-> inputs.apiToken, password |-> S_empty],
                             headers |-> headers])
  /\ calls' = Append(calls, "axios.post")
  /\ pc' = "await"
  /\ UNCHANGED <<env, inputs, data, headers, stream, log, response, result, error>>

\* Line 57: the transport succeeded; the whole body, and so the file
\* stream, was read to its end, which closes the stream.
RespondOk ==
  /\ pc = "await"
  /\ \E r \in Responses : response' = [status |-> "ok", data |-> r]
  /\ result' = response'.data
  /\ stream' = IF stream = "open" THEN "closed" ELSE stream
  /\ pc' = "done"
  /\ UNCHANGED <<env, inputs, data, headers, log, posts, error, calls>>

\* Variant that sends the request again after a transport failure.
RespondError_retry ==
  /\ pc = "await"
  /\ \E e \in TransportFailures : response' = [status |-> "error", error |-> e]
  /\ pc' = "post"
  /\ UNCHANGED <<env, inputs, data, headers, stream, log, posts, result, error, calls>>

\* Line 48: the awaited promise rejects and the error propagates.  The
\* source has no handler that closes the stream: it is closed only if the
\* transport happened to consume or destroy it.
RespondError ==
  /\ pc = "await"
  /\ \E e \in TransportFailures : response' = [status |-> "error", error |-> e]
  /\ error' = response'.error
  /\ stream' \in (IF stream = "open" THEN {"open", "closed"} ELSE {stream})
  /\ pc' = "failed"
  /\ UNCHANGED <<env, inputs, data, headers, log, posts, result, calls>>

Next == Validate \/ Build \/ Diagnose \/ Post \/ RespondOk \/ RespondError

Spec == Init /\ [][Next]_vars

Terminated == pc \in {"done", "failed"}

(***************************************************************************)
(* The Request Builder invoked directly, on any configuration.             *)
(***************************************************************************)
InitBuilder ==
  /\ env \in Envs
  /\ inputs = getInputs(env)
  /\ pc = "build"
  /\ data = NoData
  /\ headers = NoHeaders
  /\ stream = "none"
  /\ log = <<>>
  /\ posts = <<>>
  /\ response = NoResponse
  /\ result = NoResult
  /\ error = NoError
  /\ calls = <<>>

NextBuilder == Build

SpecBuilder == InitBuilder /\ [][NextBuilder]_vars

(***************************************************************************)
(* Properties.                                                             *)
(***************************************************************************)
Contains(hay, needle) ==
  \E i \in 0..(Len(hay) - Len(needle)) : SubSeq(hay, i + 1, i + Len(needle)) = needle

Validated == Len(calls) >= 1 /\ calls[1] = "validateInputData"

Built == \E i \in 1..Len(calls) : calls[i] = "dataAndHeaders"

\* The outcome the four rules prescribe, as the specification states them:
\* the timeout rule rejects every timeout that is neither 0 nor enumerated.
PrescribedOutcome(input) ==
  IF input.platform \notin {S_ios, S_android} THEN InvalidPlatform
  ELSE IF input.appFile = <<>> /\ input.appUrl = <<>> THEN MissingSource
  ELSE IF input.fileType # <<>> /\ input.fileType \notin {S_apk, S_zip, S_targz}
  THEN InvalidFileType
  ELSE IF input.timeout # Num(0)
          /\ (input.timeout.nan \/ input.timeout.val \notin ValidTimeouts)
  THEN InvalidTimeout
  ELSE Ok

\* C1: once validateInputData has run, the invocation has failed with the
\* reason of the first violated rule (platform, source, file type, timeout),
\* or has gone on when no rule is violated.
C1_FirstViolatedRule ==
  Validated =>
    IF PrescribedOutcome(inputs) = Ok
    THEN ~(pc = "failed" /\ Len(calls) = 1)
    ELSE pc = "failed" /\ Len(calls) = 1 /\ error = PrescribedOutcome(inputs)

\* C2: a configuration that violates a validation rule ends with that
\* validation failure and never opens a stream, builds a payload, emits a
\* diagnostic line or sends a request.
C2_FailsBeforeBuilder ==
  PrescribedOutcome(inputs) # Ok =>
    /\ stream = "none"
    /\ data = NoData
    /\ log = <<>>
    /\ posts = <<>>
    /\ ~Built
    /\ Validated => (pc = "failed" /\ error = PrescribedOutcome(inputs))

\* C3 as stated: whenever a payload is built after validation, exactly one
\* of appFile and appUrl is non-empty.
C3_ExactlyOneSource ==
  (Validated /\ Built) => ((inputs.appFile # <<>>) # (inputs.appUrl # <<>>))

\* C3 amended: whenever a payload is built after validation, at least one
\* of appFile and appUrl is non-empty (both may be).
C3_AtLeastOneSource ==
  (Validated /\ Built) => (inputs.appFile # <<>> \/ inputs.appUrl # <<>>)

C3_Witness ==
  Validated /\ Built /\ inputs.appFile # <<>> /\ inputs.appUrl # <<>> /\ data.kind = "form"

\* C4: no emitted diagnostic line contains the apiToken value, and the
\* apiToken member of the emitted copy is the placeholder "scrubbed".
C4_TokenNeverLogged ==
  log # <<>> =>
    /\ \A i \in 1..Len(log) : ~Contains(log[i], env.apiToken)
    /\ Contains(log[3], Member(Key.apiToken, JsonString(S_scrubbed)))

\* C5: in the multipart form each optional field is present if and only if
\* its configuration value is non-empty / non-default (empty string, timeout
\* 0 and false are the defaults), and a present field carries the text of
\* the value.
C5_OptionalFieldsIff ==
  data.kind = "form" =>
    LET Has(n) == \E i \in 1..Len(data.form) : data.form[i].name = n
        Val(n) == data.form[CHOOSE i \in 1..Len(data.form) : data.form[i].name = n].value
    IN /\ \A n \in {"fileType", "note", "buttonText", "postSessionButtonText", "launchUrl"} :
            /\ Has(n) <=> inputs[n] # <<>>
            /\ Has(n) => Val(n) = inputs[n]
       /\ Has("timeout") <=> inputs.timeout # Num(0)
       /\ Has("timeout") => Val("timeout") = StringOfNumber(inputs.timeout)
       /\ \A n \in {"disabled", "disableHome", "useLastFrame"} :
            /\ Has(n) <=> inputs[n]
            /\ Has(n) => Val(n) = StringOfBoolean(inputs[n])

\* C6: no invocation ends with the file read stream still open.
C6_StreamReleased == Terminated => stream # "open"

\* C7: at most one POST is ever sent, the steps run once each in the order
\* validate, build, send, a success returns the response data verbatim and
\* a transport failure is the terminal error, with nothing sent after it.
C7_SingleSequence ==
  /\ Len(posts) <= 1
  /\ \E n \in 0..3 : calls = SubSeq(<<"validateInputData", "dataAndHeaders", "axios.post">>, 1, n)
  /\ response.status # "none" => Len(posts) = 1 /\ Terminated
  /\ pc = "done" => response.status = "ok" /\ result = response.data /\ error = NoError
  /\ response.status = "error" => pc = "failed" /\ error = response.error /\ result = NoResult

C7_Witness ==
  pc = "failed" /\ response.status = "error" /\ Len(posts) = 1 /\ validateInputData(inputs) = Ok

\* C8: the address is apiHost/v1/apps/ followed by publicKey when publicKey
\* is non-empty and the bare collection address otherwise, and the address
\* in the first diagnostic line is the address the request is sent to.
C8_TargetAddress ==
  LET collection == inputs.apiHost \o <<"/", "v", "1", "/", "a", "p", "p", "s", "/">>
      expected == IF inputs.publicKey = <<>> THEN collection
                  ELSE collection \o inputs.publicKey
  IN /\ url(inputs) = expected
     /\ log # <<>> => log[1] = S_uploading \o expected
     /\ posts # <<>> => posts[1].url = expected /\ log[1] = S_uploading \o posts[1].url

C8_Witness == posts # <<>> /\ inputs.publicKey # <<>>

\* C9: the builder yields the multipart form with multipart headers whenever
\* appFile is non-empty (also when appUrl is non-empty too), the URL object
\* without headers and with url = appUrl when only appUrl is non-empty, and
\* throws the missing-source error when both are empty.
C9_SourceSelection ==
  Built =>
    IF inputs.appFile # <<>>
    THEN pc = "log" /\ data.kind = "form" /\ headers = FormHeaders /\ stream = "open"
         /\ data.form[1] = Field("file", inputs.appFile)
    ELSE IF inputs.appUrl # <<>>
    THEN pc = "log" /\ data.kind = "object" /\ headers = NoHeaders /\ stream = "none"
         /\ data.object.url = inputs.appUrl
    ELSE pc = "failed" /\ error = MissingSource /\ data = NoData /\ stream = "none"

C9_Witness ==
  Built /\ inputs.appFile # <<>> /\ inputs.appUrl # <<>> /\ data.kind = "form"

\* C10: the configuration keeps the values it was constructed with, also
\* after the scrubbed copy is emitted, and the request authenticates with
\* the configured apiToken as username and the empty password.
C10_ConfigurationUnchanged ==
  /\ inputs = getInputs(env)
  /\ posts # <<>> =>
       posts[1].auth = [username |-> env.apiToken, password |-> <<>>]

C10_Witness == log # <<>> /\ posts # <<>> /\ inputs.apiToken = env.apiToken

====
